---------------------------- MODULE Spec2Model ----------------------------
(***************************************************************************)
(* libgroove: the loudness detector (grooveloudness/loudness.c) and the    *)
(* player (grooveplayer/player.c), two sinks attached to a playlist.       *)
(*                                                                         *)
(* The loudness detector owns a worker thread (detect_thread) that pulls   *)
(* buffers from its sink, keeps one EBU R128 accumulator per track and     *)
(* puts GrooveLoudnessDetectorInfo records on info_queue.  Other threads   *)
(* call sink_purge / sink_flush (the playlist), info_get (the consumer),   *)
(* position (anyone) and attach / detach (the application).                *)
(*                                                                         *)
(* Each pthread mutex section that no unlocked code can observe half-way   *)
(* is one action; the places where unlocked code (the queue's get hook,    *)
(* detach) can interleave are separate program counters.                   *)
(***************************************************************************)
EXTENDS Integers, Sequences, FiniteSets, TLC

\* ---- bounds of the model ----
MaxFetch == 3        \* fetch results the source delivers in one run
MaxQueueSize == 2    \* largest info_queue_size the application configures
MaxAllocFail == 1    \* allocation failures injected in one run
MaxPos == 1          \* largest buffer->pos the source reports

\* ---- program constants ----
InitialHistory == 128   \* state_history_count in album mode
NoPos == -1             \* the "unknown" position, -1.0

NULL == "NULL"
Items == {"a", "b"}                  \* playlist items (compared by identity only)
\* An ebur128_state is what was fed to it: the items of the buffers added,
\* the fetch number of the first one and how many.  live = FALSE is a NULL
\* ebur128_state*.
NoState == [live |-> FALSE, items |-> {}, first |-> 0, n |-> 0]
Slots == 0 .. MaxFetch               \* slot indices the run can touch

VARIABLES
    \* struct GrooveLoudnessDetectorPrivate
    state_history_count, cur_track_index, all_track_states, states_alloc,
    info_head, info_pos, info_queue_count, track_duration, album_duration,
    abort_request,
    \* struct GrooveLoudnessDetector (externals), set by the application
    disable_album, info_queue_size,
    \* info_queue (groove/queue.h): its items and its abort flag
    queue, q_abort,
    \* the sink: attached to a playlist or not
    sink_attached,
    \* info_head_mutex: "free" or the thread that holds it
    mutex,
    \* detect_thread: program counter and the pending fetch result
    wpc, result,
    \* groove_loudness_detector_attach / detach on the application thread
    attached, dpc,
    \* sink_purge / sink_flush on the playlist thread
    cpc, c_item,
    \* groove_loudness_detector_position on a reader thread
    qpc, q_item, q_seen,
    \* groove_loudness_detector_info_get: where in the source's output the
    \* record copied out last was observed (see observed)
    info_out,
    \* a NULL ebur128_state* was dereferenced: the process died (crashed),
    \* or it went on with whatever the library made of it (ub)
    crashed, ub,
    \* observation of the run: fetches delivered, runs of the current
    \* stream, emit_track_info calls of the current stream, ...
    nfetch, last_item, runs, emits, clean, eos_done, alloc_fails,
    \* struct GroovePlayerPrivate
    audio_buf, audio_buf_size, audio_buf_index, play_head, play_pos,
    \* the player's device (open or not), sink (attached or not), event
    \* queue and its abort flag, play_head_mutex
    device_id, p_sink_attached, eventq, eventq_abort, play_head_mutex,
    \* sdl_audio_callback: program counter, bytes still to write (len) and
    \* the paused flag it read
    ppc, len, paused,
    \* groove_player_attach / detach on the application thread
    p_attached, pdpc,
    \* groove_player_position on a reader thread
    pqpc, pq_item,
    \* fetches the player's sink delivered
    p_nfetch,
    \* observation of the player's run: bytes the playing callbacks asked
    \* for, bytes of the buffers fetched, the number of the byte before the
    \* held buffer's first, the bytes copied to the device (by number), the
    \* bytes zero-filled by playing callbacks, and the last purge, flush
    \* or detach that happened ("none" before the first)
    p_requested, p_produced, p_base, p_out, p_silence, p_ctl,
    \* whether the allocation of emit_event failed in the callback's last
    \* turn (it is only logged)
    p_alloc_failed,
    \* the slot array of a long album (see hist_boundary): the slot count
    \* the struct records, the current slot, the bytes allocated for the
    \* array, the leading slots that still hold what was stored in them,
    \* and whether the process died of an access outside the array
    hist_count, hist_index, hist_bytes, hist_valid, hist_dead,
    \* observation of the purges, kept when purge_watch is set: the items
    \* purged and not fetched again since (purged), and those of them whose
    \* purge returned after the worker's current fetch had started
    \* (purged_late)
    purge_watch, purged, purged_late

lvars == <<state_history_count, cur_track_index, all_track_states, states_alloc,
           info_head, info_pos, info_queue_count, track_duration, album_duration,
           abort_request, disable_album, info_queue_size, queue, q_abort,
           sink_attached, mutex, wpc, result, attached, dpc, cpc, c_item,
           qpc, q_item, q_seen, info_out, crashed, ub,
           nfetch, last_item, runs, emits, clean, eos_done, alloc_fails>>

pvars == <<audio_buf, audio_buf_size, audio_buf_index, play_head, play_pos,
           device_id, p_sink_attached, eventq, eventq_abort, play_head_mutex,
           ppc, len, paused, p_attached, pdpc, pqpc, pq_item, p_nfetch,
           p_requested, p_produced, p_base, p_out, p_silence, p_ctl,
           p_alloc_failed>>

hvars == <<hist_count, hist_index, hist_bytes, hist_valid, hist_dead>>

wvars == <<purge_watch, purged, purged_late>>

vars == <<lvars, pvars, hvars, wvars>>

NoResult == [kind |-> "NONE", item |-> NULL, pos |-> 0, id |-> 0]
\* struct GrooveLoudnessDetectorInfo: item and duration, and in place of the
\* loudness and peak numbers the accumulators they were computed from (acc
\* for a track, over for the album); eos is the fetch number of the
\* end-of-stream an album record was made at.
NoInfo == [item |-> NULL, kind |-> "none", duration |-> 0, acc |-> NoState,
           over |-> {}, eos |-> 0]

----------------------------------------------------------------------------
\* groove/queue.h as the detector uses it.  The hooks info_queue_put,
\* info_queue_get and info_queue_cleanup run inside the queue's own lock,
\* so each queue call is one atomic step.

\* pthread_cond_signal(&d->drain_cond): wakes the worker if it is waiting.
cond_signal(pc) == IF pc = "waiting" THEN "woken" ELSE pc

\* A purge predicate that also matches the records without an item: a
\* purge would remove the album records too.
purge_or_null(info, purge_item) == info.item = purge_item \/ info.item = NULL

\* info_queue_purge: the predicate groove_queue_purge applies to each item.
info_queue_purge(info, purge_item) == info.item = purge_item

RECURSIVE SelectNot(_, _)
SelectNot(q, purge_item) ==
    IF q = <<>> THEN <<>>
    ELSE IF info_queue_purge(Head(q), purge_item)
         THEN SelectNot(Tail(q), purge_item)
         ELSE <<Head(q)>> \o SelectNot(Tail(q), purge_item)

\* groove_queue_purge: the items the predicate rejects, in order.
groove_queue_purge(q, purge_item) == SelectNot(q, purge_item)

\* groove_queue_put: append at the tail.
groove_queue_put(q, info) == Append(q, info)

\* A put hook that counts every record twice.
put_twice(count) == count + 2

\* info_queue_put hook.
info_queue_put(count) == count + 1

\* info_queue_cleanup hook, once per removed item.
info_queue_cleanup(count, removed) == count - removed

----------------------------------------------------------------------------
\* groove_loudness_detector_create: av_mallocz zeroes the whole struct.
DetectorInit ==
    /\ state_history_count = 0
    /\ cur_track_index = 0
    /\ all_track_states = [i \in Slots |-> NoState]
    /\ states_alloc = FALSE
    /\ info_head = NULL
    /\ info_pos = 0
    /\ info_queue_count = 0
    /\ track_duration = 0
    /\ album_duration = 0
    /\ abort_request = 0
    /\ disable_album \in BOOLEAN
    /\ info_queue_size \in 1 .. MaxQueueSize
    /\ queue = <<>>
    /\ q_abort = FALSE
    /\ sink_attached = FALSE
    /\ mutex = "free"
    /\ wpc = "none"
    /\ result = NoResult
    /\ attached = FALSE
    /\ dpc = "idle"
    /\ cpc = "idle"
    /\ c_item = NULL
    /\ qpc = "idle"
    /\ q_item = NULL
    /\ q_seen = {}
    /\ info_out = 0
    /\ crashed = FALSE
    /\ ub = FALSE
    /\ nfetch = 0
    /\ last_item = NULL
    /\ runs = 0
    /\ emits = 0
    /\ clean = TRUE
    /\ eos_done = FALSE
    /\ alloc_fails = 0

\* A buffer the player holds: item, pos and size in bytes; NoBuffer is NULL.
NoBuffer == [item |-> NULL, pos |-> 0, size |-> 0]

\* groove_player_create: av_mallocz zeroes the struct; the event queue is
\* created, nothing is attached.
PlayerInit ==
    /\ audio_buf = NoBuffer
    /\ audio_buf_size = 0
    /\ audio_buf_index = 0
    /\ play_head = NULL
    /\ play_pos = 0
    /\ device_id = 0
    /\ p_sink_attached = FALSE
    /\ eventq = <<>>
    /\ eventq_abort = FALSE
    /\ play_head_mutex = "free"
    /\ ppc = "idle"
    /\ len = 0
    /\ paused = FALSE
    /\ p_attached = FALSE
    /\ pdpc = "idle"
    /\ pqpc = "idle"
    /\ pq_item = NULL
    /\ p_nfetch = 0
    /\ p_requested = 0
    /\ p_produced = 0
    /\ p_base = 0
    /\ p_out = <<>>
    /\ p_silence = 0
    /\ p_ctl = "none"
    /\ p_alloc_failed = FALSE

\* sizeof(ebur128_state*) on a 64-bit build.
PointerSize == 8

\* The slot array after an attach in album mode: calloc(128, sizeof(ebur128_state*)).
HistoryInit ==
    /\ hist_count = InitialHistory
    /\ hist_index = 0
    /\ hist_bytes = InitialHistory * PointerSize
    /\ hist_valid = InitialHistory
    /\ hist_dead = FALSE

\* Nothing has been purged.
NoPurges == purged = {} /\ purged_late = {}

Init == DetectorInit /\ PlayerInit /\ HistoryInit /\ purge_watch = FALSE /\ NoPurges

cfg == <<disable_album, info_queue_size>>
ghost == <<ub, nfetch, last_item, runs, emits, clean, eos_done, alloc_fails>>
reader == <<qpc, q_item, q_seen>>
accs == <<state_history_count, cur_track_index, all_track_states, states_alloc>>
durs == <<track_duration, album_duration>>
pos == <<info_head, info_pos>>
qvars == <<queue, info_queue_count>>

----------------------------------------------------------------------------
\* groove_loudness_detector_attach, the successful path: reset the queue,
\* calloc the slot array, attach the sink, start the worker.
history_size(no_album) == IF no_album THEN 1 ELSE InitialHistory

groove_loudness_detector_attach ==
    /\ ~crashed /\ UNCHANGED <<pvars, hvars, wvars>>
    /\ ~attached /\ dpc = "idle"
    /\ q_abort' = FALSE
    /\ state_history_count' = history_size(disable_album)
    /\ all_track_states' = [i \in Slots |-> NoState]
    /\ states_alloc' = TRUE
    /\ cur_track_index' = 0
    /\ sink_attached' = TRUE
    /\ wpc' = "loop"
    /\ attached' = TRUE
    /\ last_item' = NULL /\ runs' = 0 /\ emits' = 0 /\ clean' = TRUE
    /\ eos_done' = FALSE
    /\ UNCHANGED <<pos, qvars, durs, abort_request, cfg, mutex, result, dpc,
                   cpc, c_item, reader, info_out, crashed, ub, nfetch, alloc_fails>>

----------------------------------------------------------------------------
\* detect_thread.

\* line 92: while (!d->abort_request)
W_loop ==
    /\ ~crashed /\ UNCHANGED <<pvars, hvars, wvars>>
    /\ wpc = "loop"
    /\ wpc' = IF abort_request = 1 THEN "done" ELSE "lock"
    /\ UNCHANGED <<accs, pos, qvars, durs, abort_request, cfg, q_abort,
                   sink_attached, mutex, result, attached, dpc, cpc, c_item,
                   reader, info_out, crashed, ghost>>

\* The occupancy test with > in place of >=: the worker would fetch with the
\* occupancy at the threshold.
queue_over(count, size) == count > size

\* line 95: the occupancy test that decides between waiting and fetching.
queue_full(count, size) == count >= size

\* A worker that forgets the unlock of line 104 and fetches with the
\* mutex held.
W_check_locked ==
    /\ ~crashed /\ UNCHANGED <<pvars, hvars, purge_watch, purged>>
    /\ wpc = "lock" /\ mutex = "free"
    /\ IF queue_full(info_queue_count, info_queue_size)
       THEN wpc' = "prewait" /\ mutex' = "worker" /\ UNCHANGED purged_late
       ELSE wpc' = "fetch" /\ mutex' = "worker" /\ purged_late' = {}
    /\ UNCHANGED <<accs, pos, qvars, durs, abort_request, cfg, q_abort,
                   sink_attached, result, attached, dpc, cpc, c_item,
                   reader, info_out, crashed, ghost>>

\* lines 93-104: lock; a full queue leads to pthread_cond_wait (the mutex is
\* still held until the wait starts), otherwise unlock and go to the fetch.
W_check ==
    /\ ~crashed /\ UNCHANGED <<pvars, hvars, purge_watch, purged>>
    /\ wpc = "lock" /\ mutex = "free"
    /\ IF queue_full(info_queue_count, info_queue_size)
       THEN wpc' = "prewait" /\ mutex' = "worker" /\ UNCHANGED purged_late
       ELSE wpc' = "fetch" /\ mutex' = mutex /\ purged_late' = {}
    /\ UNCHANGED <<accs, pos, qvars, durs, abort_request, cfg, q_abort,
                   sink_attached, result, attached, dpc, cpc, c_item,
                   reader, info_out, crashed, ghost>>

\* line 96: pthread_cond_wait releases the mutex and blocks.
W_wait ==
    /\ ~crashed /\ UNCHANGED <<pvars, hvars, wvars>>
    /\ wpc = "prewait"
    /\ wpc' = "waiting" /\ mutex' = "free"
    /\ UNCHANGED <<accs, pos, qvars, durs, abort_request, cfg, q_abort,
                   sink_attached, result, attached, dpc, cpc, c_item,
                   reader, info_out, crashed, ghost>>

\* lines 96-98: signalled, pthread_cond_wait re-acquires the mutex and
\* returns; unlock; continue.
W_wake ==
    /\ ~crashed /\ UNCHANGED <<pvars, hvars, wvars>>
    /\ wpc = "woken" /\ mutex = "free"
    /\ wpc' = "loop"
    /\ UNCHANGED <<accs, pos, qvars, durs, abort_request, cfg, q_abort,
                   sink_attached, mutex, result, attached, dpc, cpc, c_item,
                   reader, info_out, crashed, ghost>>

\* A fetch returns a buffer of item: a purge of item that returned before
\* this fetch started is no longer the last word on item.
fetched_again(items, late, item) == items \ ({item} \ late)

\* line 106: groove_sink_buffer_get(d->sink, &buffer, 1).  An attached sink
\* delivers a buffer or the end of the stream (or keeps the worker blocked);
\* a detached sink makes the blocking get return GROOVE_BUFFER_NO.
W_fetch ==
    /\ ~crashed /\ UNCHANGED <<pvars, hvars, purge_watch, purged_late>>
    /\ wpc = "fetch"
    /\ \/ /\ sink_attached /\ nfetch < MaxFetch
          /\ \E it \in Items, p \in 0 .. MaxPos :
               /\ result' = [kind |-> "YES", item |-> it, pos |-> p, id |-> nfetch + 1]
               /\ runs' = (IF eos_done THEN 0 ELSE runs)
                          + (IF it # last_item THEN 1 ELSE 0)
               /\ last_item' = it
               /\ purged' = fetched_again(purged, purged_late, it)
          /\ nfetch' = nfetch + 1
          /\ emits' = (IF eos_done THEN 0 ELSE emits)
          /\ eos_done' = FALSE
       \/ /\ sink_attached /\ nfetch < MaxFetch
          /\ result' = [kind |-> "END", item |-> NULL, pos |-> 0, id |-> nfetch + 1]
          /\ runs' = (IF eos_done THEN 0 ELSE runs)
          /\ last_item' = NULL
          /\ nfetch' = nfetch + 1
          /\ emits' = (IF eos_done THEN 0 ELSE emits)
          /\ eos_done' = FALSE
          /\ UNCHANGED purged
       \/ /\ ~sink_attached
          /\ result' = [kind |-> "NO", item |-> NULL, pos |-> 0, id |-> 0]
          /\ UNCHANGED <<nfetch, last_item, runs, emits, eos_done, purged>>
    /\ wpc' = "got"
    /\ UNCHANGED <<accs, pos, qvars, durs, abort_request, cfg, q_abort,
                   sink_attached, mutex, attached, dpc, cpc, c_item,
                   reader, info_out, crashed, ub, clean, alloc_fails>>

\* lines 147-150: any other result ends the thread.
W_error ==
    /\ ~crashed /\ UNCHANGED <<pvars, hvars, wvars>>
    /\ wpc = "got" /\ result.kind = "NO" /\ mutex = "free"
    /\ wpc' = "done"
    /\ UNCHANGED <<accs, pos, qvars, durs, abort_request, cfg, q_abort,
                   sink_attached, mutex, result, attached, dpc, cpc, c_item,
                   reader, info_out, crashed, ghost>>

\* Allocation may fail while the run's budget of failures lasts.
MayFail == IF alloc_fails < MaxAllocFail THEN BOOLEAN ELSE {FALSE}

\* What dereferencing state can do: a NULL ebur128_state* is undefined
\* behaviour, the process dies or the library call does nothing.
Deref(state) == IF state.live THEN {"ok"} ELSE {"crash", "noop"}

\* emit_track_info, lines 59-70: the record made from info_head,
\* track_duration and the current slot.
track_info ==
    [item |-> info_head, kind |-> "track", duration |-> track_duration,
     acc |-> all_track_states[cur_track_index], over |-> {}, eos |-> 0]

\* emit_track_info: nothing is put when the allocation fails (line 55).
emit_track_info(q, count, fail) ==
    IF fail THEN [queue |-> q, count |-> count]
    ELSE [queue |-> groove_queue_put(q, track_info), count |-> info_queue_put(count)]

\* The process dies: nothing runs any more.
Crash ==
    /\ crashed' = TRUE
    /\ UNCHANGED <<accs, pos, qvars, durs, abort_request, cfg, q_abort,
                   sink_attached, mutex, wpc, result, attached, dpc, cpc,
                   c_item, reader, info_out, ghost>>

\* lines 108-112: lock; on GROOVE_BUFFER_END emit the last track's info,
\* whatever the current slot holds.
W_end ==
    /\ ~crashed /\ UNCHANGED <<pvars, hvars, wvars>>
    /\ wpc = "got" /\ result.kind = "END" /\ mutex = "free"
    /\ \E fail \in MayFail :
        \E how \in (IF fail THEN {"ok"} ELSE Deref(all_track_states[cur_track_index])) :
           IF how = "crash" THEN Crash
           ELSE LET e == emit_track_info(queue, info_queue_count, fail) IN
                /\ queue' = e.queue
                /\ info_queue_count' = e.count
                /\ wpc' = "end_album"
                /\ mutex' = "worker"
                /\ emits' = emits + (IF fail THEN 0 ELSE 1)
                /\ alloc_fails' = alloc_fails + (IF fail THEN 1 ELSE 0)
                /\ clean' = (clean /\ ~fail)
                /\ ub' = (ub \/ how = "noop")
                /\ UNCHANGED <<accs, pos, durs, abort_request, cfg, q_abort,
                               sink_attached, result, attached, dpc, cpc, c_item,
                               reader, info_out, crashed, nfetch, last_item,
                               runs, eos_done>>

\* lines 115-124: the album record; av_mallocz leaves item NULL.
album_info ==
    [item |-> NULL, kind |-> "album", duration |-> album_duration,
     acc |-> NoState,
     over |-> IF disable_album THEN {}
              ELSE {all_track_states[i] : i \in 0 .. cur_track_index} \ {NoState},
     eos |-> result.id]

\* A destroy loop that stops one slot early (i < last for i <= last).
destroy_below(states, last) ==
    [i \in Slots |-> IF i < last THEN NoState ELSE states[i]]

\* ebur128_destroy on slots 0..last (lines 130-133, 240-243, 375-378).
destroy_states(states, last) ==
    [i \in Slots |-> IF i <= last THEN NoState ELSE states[i]]

\* lines 115-144: put the album record, in album mode destroy the
\* accumulators and rewind the slot index, reset the album counters and the
\* position, unlock.
W_album ==
    /\ ~crashed /\ UNCHANGED <<pvars, hvars, wvars>>
    /\ wpc = "end_album"
    /\ \E fail \in MayFail :
        /\ queue' = IF fail THEN queue ELSE groove_queue_put(queue, album_info)
        /\ info_queue_count' = IF fail THEN info_queue_count
                               ELSE info_queue_put(info_queue_count)
        /\ alloc_fails' = alloc_fails + (IF fail THEN 1 ELSE 0)
        /\ clean' = (clean /\ ~fail)
    /\ IF ~disable_album
       THEN /\ all_track_states' = destroy_states(all_track_states, cur_track_index)
            /\ cur_track_index' = 0
       ELSE UNCHANGED <<all_track_states, cur_track_index>>
    /\ album_duration' = 0
    /\ info_head' = NULL
    /\ info_pos' = NoPos
    /\ mutex' = "free"
    /\ wpc' = "loop"
    /\ eos_done' = TRUE
    /\ UNCHANGED <<state_history_count, states_alloc, track_duration,
                   abort_request, cfg, q_abort, sink_attached, result, attached,
                   dpc, cpc, c_item, reader, info_out, crashed, ub, nfetch,
                   last_item, runs, emits>>

\* resize_state_history, lines 76 and 83: the slot count doubles.
resize_state_history(count) == count * 2

\* ebur128_init (lines 167-168): an empty accumulator.
ebur128_init == [live |-> TRUE, items |-> {}, first |-> 0, n |-> 0]

\* ebur128_add_frames_double (lines 180-181) of buffer buf.
ebur128_add_frames(state, buf) ==
    [live |-> TRUE, items |-> state.items \cup {buf.item},
     first |-> IF state.n = 0 THEN buf.id ELSE state.first, n |-> state.n + 1]

\* line 152: a buffer of another item than info_head starts a new track.
track_boundary(buf, head) == buf.item # head

\* lines 108, 152-184: lock; at a track boundary emit the previous track if
\* its slot holds an accumulator, move to the next slot (album mode) or
\* destroy the accumulator (disable_album), create the new accumulator and
\* record the position; then add the buffer's duration and frames; unlock.
W_buffer ==
    /\ ~crashed /\ UNCHANGED <<pvars, hvars, wvars>>
    /\ wpc = "got" /\ result.kind = "YES" /\ mutex = "free"
    /\ LET boundary == track_boundary(result, info_head)
           emit == boundary /\ all_track_states[cur_track_index].live
       IN
       \E infoFail \in (IF emit THEN MayFail ELSE {FALSE}) :
       \E accFail \in (IF boundary /\ ~infoFail THEN MayFail ELSE {FALSE}) :
         LET e == IF emit THEN emit_track_info(queue, info_queue_count, infoFail)
                  ELSE [queue |-> queue, count |-> info_queue_count]
             cur1 == IF emit /\ ~disable_album THEN cur_track_index + 1
                     ELSE cur_track_index
             count1 == IF emit /\ ~disable_album /\ cur1 >= state_history_count
                       THEN resize_state_history(state_history_count)
                       ELSE state_history_count
             states1 == IF emit /\ disable_album
                        THEN [all_track_states EXCEPT ![cur_track_index] = NoState]
                        ELSE all_track_states
             states2 == IF boundary
                        THEN [states1 EXCEPT ![cur1] =
                                 IF accFail THEN NoState ELSE ebur128_init]
                        ELSE states1
             fails == (IF infoFail THEN 1 ELSE 0) + (IF accFail THEN 1 ELSE 0)
         IN
         \E how \in Deref(states2[cur1]) :
           IF how = "crash" THEN Crash
           ELSE /\ queue' = e.queue
                /\ info_queue_count' = e.count
                /\ cur_track_index' = cur1
                /\ state_history_count' = count1
                /\ all_track_states' =
                      IF how = "ok"
                      THEN [states2 EXCEPT ![cur1] = ebur128_add_frames(@, result)]
                      ELSE states2
                /\ track_duration' = (IF boundary THEN 0 ELSE track_duration) + 1
                /\ album_duration' = album_duration + 1
                /\ info_head' = IF boundary THEN result.item ELSE info_head
                /\ info_pos' = IF boundary THEN result.pos ELSE info_pos
                /\ emits' = emits + (IF emit /\ ~infoFail THEN 1 ELSE 0)
                /\ alloc_fails' = alloc_fails + fails
                /\ clean' = (clean /\ fails = 0)
                /\ ub' = (ub \/ how = "noop")
                /\ wpc' = "loop"
                /\ UNCHANGED <<states_alloc, abort_request, cfg, q_abort,
                               sink_attached, mutex, result, attached, dpc, cpc,
                               c_item, reader, info_out, crashed, nfetch,
                               last_item, runs, eos_done>>

----------------------------------------------------------------------------
\* The sink's callbacks, run by the playlist thread while the sink is
\* attached.

\* sink_purge lines 222-225: lock, groove_queue_purge with purge_item = item.
sink_purge ==
    /\ ~crashed /\ UNCHANGED <<pvars, hvars, wvars>>
    /\ cpc = "idle" /\ sink_attached /\ mutex = "free"
    /\ \E item \in Items :
        LET kept == groove_queue_purge(queue, item) IN
        /\ queue' = kept
        /\ info_queue_count' = info_queue_cleanup(info_queue_count, Len(queue) - Len(kept))
        /\ c_item' = item
    /\ mutex' = "ctl"
    /\ cpc' = "purge"
    /\ clean' = FALSE
    /\ UNCHANGED <<accs, pos, durs, abort_request, cfg, q_abort, sink_attached,
                   wpc, result, attached, dpc, reader, info_out, crashed, ub,
                   nfetch, last_item, runs, emits, eos_done, alloc_fails>>

\* lines 227-230: the position after purging item.
purge_head(head, item) == IF head = item THEN NULL ELSE head
purge_pos(head, p, item) == IF head = item THEN NoPos ELSE p

\* sink_purge lines 227-232: clear the position if it is the purged item,
\* signal drain_cond, unlock.
sink_purge_return ==
    /\ ~crashed /\ UNCHANGED <<pvars, hvars, purge_watch>>
    /\ cpc = "purge"
    /\ purged' = IF purge_watch THEN purged \cup {c_item} ELSE purged
    /\ purged_late' = IF purge_watch THEN purged_late \cup {c_item} ELSE purged_late
    /\ info_head' = purge_head(info_head, c_item)
    /\ info_pos' = purge_pos(info_head, info_pos, c_item)
    /\ wpc' = cond_signal(wpc)
    /\ mutex' = "free"
    /\ cpc' = "idle"
    /\ c_item' = NULL
    /\ UNCHANGED <<accs, qvars, durs, abort_request, cfg, q_abort, sink_attached,
                   result, attached, dpc, reader, info_out, crashed, ghost>>

\* groove_queue_flush: every item is removed and cleaned up.
groove_queue_flush(q) == <<>>

\* sink_flush lines 238-239: lock, groove_queue_flush.
sink_flush ==
    /\ ~crashed /\ UNCHANGED <<pvars, hvars, wvars>>
    /\ cpc = "idle" /\ sink_attached /\ mutex = "free"
    /\ queue' = groove_queue_flush(queue)
    /\ info_queue_count' = info_queue_cleanup(info_queue_count, Len(queue))
    /\ mutex' = "ctl"
    /\ cpc' = "flush"
    /\ clean' = FALSE
    \* the runs observed start anew; a buffer fetched and not yet
    \* interpreted is the first of them
    /\ runs' = IF wpc = "got" /\ result.kind = "YES" THEN 1 ELSE 0
    /\ last_item' = IF wpc = "got" /\ result.kind = "YES" THEN result.item ELSE NULL
    /\ UNCHANGED <<accs, pos, durs, abort_request, cfg, q_abort, sink_attached,
                   wpc, result, attached, dpc, c_item, reader, info_out, crashed,
                   ub, nfetch, emits, eos_done, alloc_fails>>

\* sink_flush lines 240-250: destroy the accumulators, rewind the slot
\* index, reset track_duration and the position, signal, unlock.
sink_flush_return ==
    /\ ~crashed /\ UNCHANGED <<pvars, hvars, wvars>>
    /\ cpc = "flush"
    /\ all_track_states' = destroy_states(all_track_states, cur_track_index)
    /\ cur_track_index' = 0
    /\ track_duration' = 0
    /\ info_head' = NULL
    /\ info_pos' = NoPos
    /\ wpc' = cond_signal(wpc)
    /\ mutex' = "free"
    /\ cpc' = "idle"
    /\ UNCHANGED <<state_history_count, states_alloc, qvars, album_duration,
                   abort_request, cfg, q_abort, sink_attached, result, attached,
                   dpc, c_item, reader, info_out, crashed, ghost>>

----------------------------------------------------------------------------
\* groove_loudness_detector_info_get: groove_queue_get takes the head (an
\* aborted or empty queue gives nothing) and runs the info_queue_get hook,
\* lines 206-209, inside the queue's lock and without info_head_mutex.
groove_queue_get(q) == Tail(q)
groove_queue_head(q) == Head(q)

\* The fetch a record stems from: the first buffer of the track it
\* summarises, or the end-of-stream an album record was made at; 0 for a
\* track record made from no accumulator.
observed(info) == IF info.kind = "album" THEN info.eos ELSE info.acc.first

drain_signal(count, size) == count < size

groove_loudness_detector_info_get ==
    /\ ~crashed /\ UNCHANGED <<pvars, hvars, wvars>>
    /\ ~q_abort /\ queue # <<>>
    /\ info_out' = (IF observed(groove_queue_head(queue)) = 0 THEN info_out
                     ELSE observed(groove_queue_head(queue)))
    /\ queue' = groove_queue_get(queue)
    /\ info_queue_count' = info_queue_count - 1
    /\ wpc' = IF drain_signal(info_queue_count - 1, info_queue_size)
              THEN cond_signal(wpc) ELSE wpc
    /\ UNCHANGED <<accs, pos, durs, abort_request, cfg, q_abort, sink_attached,
                   mutex, result, attached, dpc, cpc, c_item, reader, crashed,
                   ghost>>

----------------------------------------------------------------------------
\* groove_loudness_detector_position: lock, read info_head (line 421) ...
position_read_item ==
    /\ ~crashed /\ UNCHANGED <<pvars, hvars, wvars>>
    /\ qpc = "idle" /\ mutex = "free"
    /\ mutex' = "query"
    /\ q_item' = info_head
    /\ q_seen' = {<<info_head, info_pos>>}
    /\ qpc' = "seconds"
    /\ UNCHANGED <<accs, pos, qvars, durs, abort_request, cfg, q_abort,
                   sink_attached, wpc, result, attached, dpc, cpc, c_item,
                   info_out, crashed, ghost>>

\* ... read info_pos (line 424), unlock.  The caller gets <<q_item, info_pos>>.
position_read_seconds ==
    /\ ~crashed /\ UNCHANGED <<pvars, hvars, wvars>>
    /\ qpc = "seconds"
    /\ mutex' = "free"
    /\ q_item' = NULL
    /\ q_seen' = {}
    /\ qpc' = "idle"
    /\ UNCHANGED <<accs, pos, qvars, durs, abort_request, cfg, q_abort,
                   sink_attached, wpc, result, attached, dpc, cpc, c_item,
                   info_out, crashed, ghost>>

\* The values the position record held since the reader took the lock.
seen(head, p) == IF qpc = "seconds" THEN q_seen \cup {<<head, p>>} ELSE q_seen

----------------------------------------------------------------------------
\* groove_loudness_detector_detach, after a successful attach.  Nothing in
\* it takes info_head_mutex.

\* line 365
detach_abort_request ==
    /\ ~crashed /\ UNCHANGED <<pvars, hvars, wvars>>
    /\ attached /\ dpc = "idle"
    /\ abort_request' = 1
    /\ dpc' = "sink"
    /\ UNCHANGED <<accs, pos, qvars, durs, cfg, q_abort, sink_attached, mutex,
                   wpc, result, attached, cpc, c_item, reader, info_out,
                   crashed, ghost>>

\* line 366: groove_sink_detach; the playlist calls no callback of a
\* detached sink, and a worker blocked in the fetch is released.
detach_sink ==
    /\ ~crashed /\ UNCHANGED <<pvars, hvars, wvars>>
    /\ dpc = "sink" /\ cpc = "idle"
    /\ sink_attached' = FALSE
    /\ dpc' = "flush"
    /\ UNCHANGED <<accs, pos, qvars, durs, abort_request, cfg, q_abort, mutex,
                   wpc, result, attached, cpc, c_item, reader, info_out,
                   crashed, ghost>>

\* line 367: groove_queue_flush
detach_queue_flush ==
    /\ ~crashed /\ UNCHANGED <<pvars, hvars, wvars>>
    /\ dpc = "flush"
    /\ queue' = groove_queue_flush(queue)
    /\ info_queue_count' = info_queue_cleanup(info_queue_count, Len(queue))
    /\ dpc' = "abort"
    /\ UNCHANGED <<accs, pos, durs, abort_request, cfg, q_abort, sink_attached,
                   mutex, wpc, result, attached, cpc, c_item, reader, info_out,
                   crashed, ghost>>

\* line 368: groove_queue_abort
detach_queue_abort ==
    /\ ~crashed /\ UNCHANGED <<pvars, hvars, wvars>>
    /\ dpc = "abort"
    /\ q_abort' = TRUE
    /\ dpc' = "signal"
    /\ UNCHANGED <<accs, pos, qvars, durs, abort_request, cfg, sink_attached,
                   mutex, wpc, result, attached, cpc, c_item, reader, info_out,
                   crashed, ghost>>

\* line 369: pthread_cond_signal(&d->drain_cond)
detach_signal ==
    /\ ~crashed /\ UNCHANGED <<pvars, hvars, wvars>>
    /\ dpc = "signal"
    /\ wpc' = cond_signal(wpc)
    /\ dpc' = "join"
    /\ UNCHANGED <<accs, pos, qvars, durs, abort_request, cfg, q_abort,
                   sink_attached, mutex, result, attached, cpc, c_item, reader,
                   info_out, crashed, ghost>>

\* lines 370-385: pthread_join returns once the worker has ended; destroy
\* the accumulators, free the array, clear abort_request and info_head.
detach_join ==
    /\ ~crashed /\ UNCHANGED <<pvars, hvars, wvars>>
    /\ dpc = "join" /\ wpc = "done"
    /\ wpc' = "none"
    /\ all_track_states' =
          IF states_alloc THEN destroy_states(all_track_states, cur_track_index)
          ELSE all_track_states
    /\ states_alloc' = FALSE
    /\ cur_track_index' = 0
    /\ abort_request' = 0
    /\ info_head' = NULL
    /\ q_seen' = seen(NULL, info_pos)
    /\ dpc' = "pos"
    /\ UNCHANGED <<state_history_count, info_pos, qvars, durs, cfg, q_abort,
                   sink_attached, mutex, result, attached, cpc, c_item, qpc,
                   q_item, info_out, crashed, ghost>>

\* line 386: d->info_pos = 0; return.
detach_return ==
    /\ ~crashed /\ UNCHANGED <<pvars, hvars, wvars>>
    /\ dpc = "pos"
    /\ info_pos' = 0
    /\ q_seen' = seen(info_head, 0)
    /\ dpc' = "idle"
    /\ attached' = FALSE
    /\ UNCHANGED <<accs, info_head, qvars, durs, abort_request, cfg, q_abort,
                   sink_attached, mutex, wpc, result, cpc, c_item, qpc, q_item,
                   info_out, crashed, ghost>>

----------------------------------------------------------------------------
\* The detector without position readers: a reader only holds
\* info_head_mutex for two reads and changes nothing.
Next ==
    \/ groove_loudness_detector_attach
    \/ W_loop \/ W_check \/ W_wait \/ W_wake \/ W_fetch \/ W_error
    \/ W_end \/ W_album \/ W_buffer
    \/ sink_purge \/ sink_purge_return \/ sink_flush \/ sink_flush_return
    \/ groove_loudness_detector_info_get
    \/ detach_abort_request \/ detach_sink \/ detach_queue_flush
    \/ detach_queue_abort \/ detach_signal \/ detach_join \/ detach_return

Spec == Init /\ [][Next]_vars

\* The detector with a thread that reads the position.
PosNext ==
    \/ groove_loudness_detector_attach
    \/ W_loop \/ W_check \/ W_wait \/ W_wake \/ W_fetch \/ W_error
    \/ W_end \/ W_album \/ W_buffer
    \/ sink_purge \/ sink_purge_return \/ sink_flush \/ sink_flush_return
    \/ groove_loudness_detector_info_get
    \/ position_read_item \/ position_read_seconds
    \/ detach_abort_request \/ detach_sink \/ detach_queue_flush
    \/ detach_queue_abort \/ detach_signal \/ detach_join \/ detach_return

PosSpec == Init /\ [][PosNext]_vars

\* Scheduling: a thread that can run does run, and a thread waiting for
\* info_head_mutex gets it eventually.  Nothing obliges the application to
\* attach or to start a detach, the playlist to purge or flush, the
\* consumer to get, or the source to deliver.
DetachRest == detach_sink \/ detach_queue_flush \/ detach_queue_abort
              \/ detach_signal \/ detach_join \/ detach_return
WorkerRun == W_loop \/ W_check \/ W_wait \/ W_wake \/ W_error
             \/ W_end \/ W_album \/ W_buffer
             \/ (W_fetch /\ ~sink_attached)

Fairness ==
    /\ SF_vars(WorkerRun)
    /\ SF_vars(DetachRest)
    /\ WF_vars(sink_purge_return \/ sink_flush_return)

FairSpec == Spec /\ Fairness

\* The detector with its purges observed, from attach on and while it stays
\* attached: the worker, the playlist's purges and flushes, the consumer.
PurgeInit == DetectorInit /\ PlayerInit /\ HistoryInit /\ purge_watch = TRUE /\ NoPurges

PurgeNext ==
    \/ groove_loudness_detector_attach
    \/ W_loop \/ W_check \/ W_wait \/ W_wake \/ W_fetch
    \/ W_end \/ W_album \/ W_buffer
    \/ sink_purge \/ sink_purge_return \/ sink_flush \/ sink_flush_return
    \/ groove_loudness_detector_info_get

PurgeSpec == PurgeInit /\ [][PurgeNext]_vars

----------------------------------------------------------------------------
\* The player (grooveplayer/player.c).  Its callback runs on the audio
\* device's thread and holds play_head_mutex from entry to return; one
\* action is one turn of its while loop.

MaxBufSize == 2     \* largest buffer, in bytes
MaxLen == 3         \* largest region the device asks for, in bytes
MaxEvents == 2      \* events queued when a callback may still start
MaxRequest == 4     \* bytes asked for when a playing callback may still start

pghost == <<p_requested, p_produced, p_base, p_out, p_silence, p_ctl,
            p_alloc_failed>>

\* No purge, flush or detach of the player has happened.
p_clean == p_ctl = "none"

\* An emit_event that puts the event twice.
emit_twice(q, type, fail) == IF fail THEN q ELSE Append(Append(q, type), type)

\* emit_event: put an event of the given type unless the allocation fails.
emit_event(q, type, fail) == IF fail THEN q ELSE Append(q, type)

\* groove_player_attach, the successful path (lines 249-284): open the
\* device, attach the sink, play_pos = -1.0 (without the mutex), reset the
\* event queue, start the device.
groove_player_attach ==
    /\ UNCHANGED <<lvars, hvars, wvars, pghost>>
    /\ ~p_attached /\ pdpc = "idle"
    /\ device_id' = 1
    /\ p_sink_attached' = TRUE
    /\ play_pos' = NoPos
    /\ eventq_abort' = FALSE
    /\ p_attached' = TRUE
    /\ UNCHANGED <<audio_buf, audio_buf_size, audio_buf_index, play_head, eventq,
                   play_head_mutex, ppc, len, paused, pdpc, pqpc, pq_item,
                   p_nfetch>>

\* sdl_audio_callback lines 83-91: read the playing flag, lock.
callback_enter ==
    /\ UNCHANGED <<lvars, hvars, wvars>>
    /\ device_id > 0 /\ ppc = "idle" /\ play_head_mutex = "free"
    /\ Len(eventq) < MaxEvents
    /\ p_requested < MaxRequest
    /\ \E n \in 1 .. MaxLen, pz \in BOOLEAN :
         /\ len' = n /\ paused' = pz
         /\ p_requested' = p_requested + (IF pz THEN 0 ELSE n)
    /\ UNCHANGED <<p_produced, p_base, p_out, p_silence, p_ctl, p_alloc_failed>>
    /\ play_head_mutex' = "callback"
    /\ ppc' = "loop"
    /\ UNCHANGED <<audio_buf, audio_buf_size, audio_buf_index, play_head,
                   play_pos, device_id, p_sink_attached, eventq, eventq_abort,
                   p_attached, pdpc, pqpc, pq_item, p_nfetch>>

\* line 94: the held buffer is used up (or none is held) and play goes on.
need_fetch(pz, index, size) == ~pz /\ index >= size

\* groove_sink_buffer_get(p->sink, &p->audio_buf, 0): what a non-blocking
\* get can return; without a buffer the pointer is set to NULL.
Fetches ==
    {[kind |-> "NO", buf |-> NoBuffer]}
    \cup (IF p_sink_attached /\ p_nfetch < MaxFetch
          THEN {[kind |-> "END", buf |-> NoBuffer]}
               \cup {[kind |-> "YES", buf |-> [item |-> it, pos |-> p, size |-> sz]] :
                        it \in Items, p \in 0 .. MaxPos, sz \in 1 .. MaxBufSize}
          ELSE {})

\* A copy that takes all the bytes wanted, whatever the held buffer has left.
copy_all(size, index, n) == n

\* A copy that stops one byte short of the end of the held buffer.
copy_short(size, index, n) == IF size - index > n THEN n ELSE size - index - 1

\* lines 122-124: the bytes one copy takes.
copy_len(size, index, n) == IF size - index > n THEN n ELSE size - index

\* lines 93-132: one turn of the loop: fetch if needed; fill with silence
\* and stop if paused or no buffer is held, else copy and go on while bytes
\* are wanted; unlock on the way out.
callback_loop ==
    /\ UNCHANGED <<lvars, hvars, wvars>>
    /\ ppc = "loop"
    /\ \E f \in (IF need_fetch(paused, audio_buf_index, audio_buf_size)
                 THEN Fetches ELSE {[kind |-> "NONE", buf |-> audio_buf]}) :
       \E fail \in (IF f.kind = "NONE" \/ (f.kind = "YES" /\ play_head = f.buf.item)
                    THEN {FALSE} ELSE MayFail) :
         LET fetched == f.kind # "NONE"
             buf1 == f.buf
             index1 == IF fetched THEN 0 ELSE audio_buf_index
             size1 == IF f.kind = "YES" THEN f.buf.size
                      ELSE IF fetched THEN 0 ELSE audio_buf_size
             head1 == IF f.kind = "END" THEN NULL
                      ELSE IF f.kind = "YES" THEN f.buf.item ELSE play_head
             pos1 == IF f.kind = "END" THEN NoPos
                     ELSE IF f.kind = "YES" THEN f.buf.pos ELSE play_pos
             events1 == IF f.kind = "END" THEN emit_event(eventq, "NOWPLAYING", fail)
                        ELSE IF f.kind = "YES" /\ play_head # f.buf.item
                             THEN emit_event(eventq, "NOWPLAYING", fail)
                        ELSE IF f.kind = "NO"
                             THEN emit_event(eventq, "BUFFERUNDERRUN", fail)
                        ELSE eventq
             base1 == IF f.kind = "YES" THEN p_produced ELSE p_base
             silence == paused \/ buf1 = NoBuffer
             len1 == copy_len(size1, index1, len)
             left == IF silence THEN 0 ELSE len - len1
         IN
         /\ audio_buf' = buf1
         /\ audio_buf_size' = size1
         /\ audio_buf_index' = IF silence THEN index1 ELSE index1 + len1
         /\ play_head' = head1
         /\ play_pos' = IF silence THEN pos1 ELSE pos1 + len1
         /\ eventq' = events1
         /\ len' = left
         /\ ppc' = IF left > 0 THEN "loop" ELSE "idle"
         /\ play_head_mutex' = IF left > 0 THEN "callback" ELSE "free"
         /\ p_nfetch' = p_nfetch + (IF f.kind \in {"YES", "END"} THEN 1 ELSE 0)
         /\ p_produced' = p_produced + (IF f.kind = "YES" THEN f.buf.size ELSE 0)
         /\ p_base' = base1
         /\ p_out' = IF silence THEN p_out
                     ELSE p_out \o [i \in 1 .. len1 |-> base1 + index1 + i]
         /\ p_silence' = p_silence + (IF silence /\ ~paused THEN len ELSE 0)
         /\ p_alloc_failed' = fail
    /\ UNCHANGED <<p_requested, p_ctl>>
    /\ UNCHANGED <<device_id, p_sink_attached, eventq_abort, paused, p_attached,
                   pdpc, pqpc, pq_item>>

\* The player's sink_purge (lines 135-151), under play_head_mutex.
player_sink_purge ==
    /\ UNCHANGED <<lvars, hvars, wvars, p_requested, p_produced, p_base, p_out,
                   p_silence, p_alloc_failed>>
    /\ p_ctl' = "purge"
    /\ p_sink_attached /\ play_head_mutex = "free"
    /\ \E item \in Items :
         /\ play_head = item
         /\ play_head' = NULL
         /\ play_pos' = NoPos
         /\ audio_buf' = NoBuffer
         /\ audio_buf_index' = 0
         /\ audio_buf_size' = 0
         /\ \E fail \in MayFail : eventq' = emit_event(eventq, "NOWPLAYING", fail)
    /\ UNCHANGED <<device_id, p_sink_attached, eventq_abort, play_head_mutex,
                   ppc, len, paused, p_attached, pdpc, pqpc, pq_item, p_nfetch>>

\* A flush that releases the buffer and forgets to reset audio_buf_index.
flush_keeps_index ==
    /\ UNCHANGED <<lvars, hvars, wvars, p_requested, p_produced, p_base, p_out,
                   p_silence, p_alloc_failed>>
    /\ p_ctl' = "flush"
    /\ p_sink_attached /\ play_head_mutex = "free"
    /\ audio_buf' = NoBuffer
    /\ audio_buf_size' = 0
    /\ UNCHANGED <<audio_buf_index, play_head, play_pos, device_id,
                   p_sink_attached, eventq, eventq_abort, play_head_mutex, ppc,
                   len, paused, p_attached, pdpc, pqpc, pq_item, p_nfetch>>

\* The player's sink_flush (lines 153-164), under play_head_mutex.
player_sink_flush ==
    /\ UNCHANGED <<lvars, hvars, wvars, p_requested, p_produced, p_base, p_out,
                   p_silence, p_alloc_failed>>
    /\ p_ctl' = "flush"
    /\ p_sink_attached /\ play_head_mutex = "free"
    /\ audio_buf' = NoBuffer
    /\ audio_buf_index' = 0
    /\ audio_buf_size' = 0
    /\ UNCHANGED <<play_head, play_pos, device_id, p_sink_attached, eventq,
                   eventq_abort, play_head_mutex, ppc, len, paused, p_attached,
                   pdpc, pqpc, pq_item, p_nfetch>>

\* groove_player_event_get: take the head of the event queue.
groove_player_event_get ==
    /\ UNCHANGED <<lvars, hvars, wvars, pghost>>
    /\ ~eventq_abort /\ eventq # <<>>
    /\ eventq' = Tail(eventq)
    /\ UNCHANGED <<audio_buf, audio_buf_size, audio_buf_index, play_head,
                   play_pos, device_id, p_sink_attached, eventq_abort,
                   play_head_mutex, ppc, len, paused, p_attached, pdpc, pqpc,
                   pq_item, p_nfetch>>

\* groove_player_position: lock, read play_head (line 324) ...
player_read_item ==
    /\ UNCHANGED <<lvars, hvars, wvars, pghost>>
    /\ pqpc = "idle" /\ play_head_mutex = "free"
    /\ play_head_mutex' = "query"
    /\ pq_item' = play_head
    /\ pqpc' = "seconds"
    /\ UNCHANGED <<audio_buf, audio_buf_size, audio_buf_index, play_head,
                   play_pos, device_id, p_sink_attached, eventq, eventq_abort,
                   ppc, len, paused, p_attached, pdpc, p_nfetch>>

\* ... read play_pos (line 327), unlock.  The caller gets <<pq_item, play_pos>>.
player_read_seconds ==
    /\ UNCHANGED <<lvars, hvars, wvars, pghost>>
    /\ pqpc = "seconds"
    /\ play_head_mutex' = "free"
    /\ pq_item' = NULL
    /\ pqpc' = "idle"
    /\ UNCHANGED <<audio_buf, audio_buf_size, audio_buf_index, play_head,
                   play_pos, device_id, p_sink_attached, eventq, eventq_abort,
                   ppc, len, paused, p_attached, pdpc, p_nfetch>>

\* groove_player_detach lines 289-292: flush and abort the event queue.
player_detach_queue ==
    /\ UNCHANGED <<lvars, hvars, wvars, p_requested, p_produced, p_base, p_out,
                   p_silence, p_alloc_failed>>
    /\ p_ctl' = "detach"
    /\ p_attached /\ pdpc = "idle"
    /\ eventq' = <<>>
    /\ eventq_abort' = TRUE
    /\ pdpc' = "sink"
    /\ UNCHANGED <<audio_buf, audio_buf_size, audio_buf_index, play_head,
                   play_pos, device_id, p_sink_attached, play_head_mutex, ppc,
                   len, paused, p_attached, pqpc, pq_item, p_nfetch>>

\* lines 293-295: groove_sink_detach.
player_detach_sink ==
    /\ UNCHANGED <<lvars, hvars, wvars, pghost>>
    /\ pdpc = "sink"
    /\ p_sink_attached' = FALSE
    /\ pdpc' = "device"
    /\ UNCHANGED <<audio_buf, audio_buf_size, audio_buf_index, play_head,
                   play_pos, device_id, eventq, eventq_abort, play_head_mutex,
                   ppc, len, paused, p_attached, pqpc, pq_item, p_nfetch>>

\* lines 296-305: SDL_CloseAudioDevice returns when no callback runs; then
\* the held buffer is released and audio_buf set to NULL.
player_detach_device ==
    /\ UNCHANGED <<lvars, hvars, wvars, pghost>>
    /\ pdpc = "device" /\ ppc = "idle"
    /\ device_id' = 0
    /\ audio_buf' = NoBuffer
    /\ pdpc' = "idle"
    /\ p_attached' = FALSE
    /\ UNCHANGED <<audio_buf_size, audio_buf_index, play_head, play_pos,
                   p_sink_attached, eventq, eventq_abort, play_head_mutex, ppc,
                   len, paused, pqpc, pq_item, p_nfetch>>

PlayerNext ==
    \/ groove_player_attach
    \/ callback_enter \/ callback_loop
    \/ player_sink_purge \/ player_sink_flush
    \/ groove_player_event_get
    \/ player_read_item \/ player_read_seconds
    \/ player_detach_queue \/ player_detach_sink \/ player_detach_device

\* The player alone: the detector stays as created, with one configuration.
PlayerOnly == Init /\ ~disable_album /\ info_queue_size = 1

PlayerSpec == PlayerOnly /\ [][PlayerNext]_vars

----------------------------------------------------------------------------
\* The slot array over a long album (album mode): the track boundaries of
\* detect_thread, lines 152-171, as far as all_track_states,
\* cur_track_index and state_history_count go.

MaxTracks == 300    \* track boundaries of one album

\* resize_state_history line 77: the byte count handed to realloc is
\* new_size, the new slot count.
realloc_size(count) == resize_state_history(count)

\* realloc keeps the contents up to the smaller of the old and new sizes.
kept_slots(valid, bytes) ==
    IF valid * PointerSize <= bytes THEN valid ELSE bytes \div PointerSize

\* line 82: memset(d->all_track_states + count, 0, new_size - count) writes
\* the bytes from count * sizeof(pointer) for new_size - count bytes.
memset_end(count) == count * PointerSize + (resize_state_history(count) - count)

\* The slots the memset zeroes completely, counted from slot count.
zeroed_slots(count) == (resize_state_history(count) - count) \div PointerSize

\* Slot i lies inside an allocation of bytes bytes.
in_bounds(i, bytes) == (i + 1) * PointerSize <= bytes

\* lines 157-168 at a track boundary with an accumulator in the current
\* slot: cur_track_index += 1; when it reaches state_history_count the
\* array is resized (realloc may fail: the array pointer becomes NULL and
\* the count stays); then the new accumulator is stored in the current
\* slot.  A memset or a store outside the allocation is undefined
\* behaviour: the process dies or goes on.
hist_boundary ==
    /\ UNCHANGED <<lvars, pvars, wvars>>
    /\ ~hist_dead /\ hist_index < MaxTracks
    /\ LET cur1 == hist_index + 1
           resize == cur1 >= hist_count
       IN
       \E fail \in (IF resize THEN BOOLEAN ELSE {FALSE}) :
         LET bytes1 == IF ~resize THEN hist_bytes
                       ELSE IF fail THEN 0 ELSE realloc_size(hist_count)
             count1 == IF resize /\ ~fail THEN resize_state_history(hist_count)
                       ELSE hist_count
             kept == IF resize THEN kept_slots(hist_valid, bytes1) ELSE hist_valid
             zeroed == resize /\ ~fail /\ memset_end(hist_count) <= bytes1
             valid1 == IF zeroed /\ kept = hist_count
                       THEN hist_count + zeroed_slots(hist_count) ELSE kept
             outside == \/ resize /\ ~fail /\ memset_end(hist_count) > bytes1
                        \/ ~in_bounds(cur1, bytes1)
         IN
         \E dies \in (IF outside THEN BOOLEAN ELSE {FALSE}) :
           /\ hist_index' = cur1
           /\ hist_count' = count1
           /\ hist_bytes' = bytes1
           /\ hist_valid' = valid1
           /\ hist_dead' = dies

\* End of the album (lines 129-135) or flush: the slot index goes back to 0;
\* the array stays as it is.
hist_rewind ==
    /\ UNCHANGED <<lvars, pvars, wvars>>
    /\ ~hist_dead /\ hist_index > 0
    /\ hist_index' = 0
    /\ UNCHANGED <<hist_count, hist_bytes, hist_valid, hist_dead>>

HistoryNext == hist_boundary \/ hist_rewind

\* The slot array alone: the detector and the player stay as created.
HistoryOnly == Init /\ ~disable_album /\ info_queue_size = 1

HistorySpec == HistoryOnly /\ [][HistoryNext]_vars

----------------------------------------------------------------------------
\* C1: backpressure.  Whenever the worker is issuing or blocked in the
\* source fetch, the occupancy info_queue_count is strictly below
\* info_queue_size: with the occupancy at the threshold no fetch starts.
C1_Backpressure == wpc = "fetch" => info_queue_count < info_queue_size

\* The queue is full and the worker waits on drain_cond instead of fetching.
C1_Witness == wpc = "waiting" /\ info_queue_count >= info_queue_size

\* C2: detach terminates the worker.  A detach that has set abort_request
\* returns, whatever the worker was doing (runs that dereferenced a NULL
\* accumulator aside).
C2_DetachReturns == (dpc = "sink") ~> (dpc = "idle" \/ crashed \/ ub)

\* C3: purge.  The queue step of sink_purge(item) removes exactly the
\* records of item, keeps the others in their order and lowers
\* info_queue_count by the number removed; until sink_purge returns no
\* record of item is queued, and on return the position is cleared to
\* (NULL, -1.0) if info_head was item and is unchanged otherwise.
C3_Purge ==
    [][ /\ (cpc = "idle" /\ cpc' = "purge") =>
              /\ queue' = SelectSeq(queue, LAMBDA r : r.item # c_item')
              /\ info_queue_count - info_queue_count' = Len(queue) - Len(queue')
        /\ (cpc = "purge") =>
              /\ \A i \in 1 .. Len(queue') : queue'[i].item # c_item
              /\ cpc' = "idle" =>
                   IF info_head = c_item
                   THEN info_head' = NULL /\ info_pos' = NoPos
                   ELSE info_head' = info_head /\ info_pos' = info_pos
      ]_vars

\* sink_purge of the current item has purged the queue and kept a record
\* of another item.
C3_Witness == cpc = "purge" /\ queue # <<>> /\ info_head = c_item

\* C4: flush.  When sink_flush returns the queue is empty, info_queue_count
\* is 0, no accumulator is left, cur_track_index is 0, track_duration and
\* album_duration are 0 and the position is (NULL, -1.0).
C4_FlushResets ==
    [][ (cpc = "flush" /\ cpc' = "idle") =>
           /\ queue' = <<>>
           /\ info_queue_count' = 0
           /\ \A i \in Slots : ~all_track_states'[i].live
           /\ cur_track_index' = 0
           /\ track_duration' = 0
           /\ album_duration' = 0
           /\ info_head' = NULL
           /\ info_pos' = NoPos
      ]_vars

\* C5: boundary detection.  When the worker has handled the end of a
\* stream, with no purge, flush or allocation failure since the attach, the
\* per-track records it enqueued for the stream are as many as the maximal
\* runs of buffers of one item in the stream.
C5_RunsEmitted == (eos_done /\ clean /\ ~ub) => emits = runs

\* C6: the producer is not left blocked.  A worker that saw the queue full
\* and waits, or is about to wait, on drain_cond fetches again once the
\* occupancy is below info_queue_size, unless a detach is requested (runs
\* that dereferenced a NULL accumulator aside).
C6_WorkerResumes ==
    (wpc \in {"prewait", "waiting"} /\ info_queue_count < info_queue_size
        /\ abort_request = 0)
    ~> (wpc = "fetch" \/ abort_request = 1 \/ crashed \/ ub)

\* C7: a NULL item marks the album record.  Every queued record with a NULL
\* item is an album record, and every track record carries the non-NULL
\* item of the buffers it summarises.
C7_NullIsAlbum ==
    ~ub =>
    \A i \in 1 .. Len(queue) :
        /\ queue[i].item = NULL => queue[i].kind = "album"
        /\ queue[i].kind = "track" =>
              /\ queue[i].item # NULL
              /\ queue[i].acc.items = {queue[i].item}

\* C8: output order.  The record the consumer got last and the records
\* still queued are in the order in which the worker observed their tracks'
\* first buffers and the ends of their streams.
Keys(q) == SelectSeq([i \in 1 .. Len(q) |-> observed(q[i])], LAMBDA k : k # 0)

Sorted(ks) == \A i, j \in 1 .. Len(ks) : i < j => ks[i] <= ks[j]

C8_Ordered == Sorted(<<info_out>> \o Keys(queue))

\* C9: position record.  In every state of either stage, from creation on,
\* the item of the position is NULL exactly when its seconds are -1.0.
C9_PositionSentinel ==
    /\ (info_head = NULL <=> info_pos = NoPos)
    /\ (play_head = NULL <=> play_pos = NoPos)

\* C10: consistent position reads.  The pair a position query returns, the
\* item it read first and the seconds it reads last, is a value the
\* position record held while the query had the mutex.
C10_ConsistentRead ==
    [][ /\ (qpc = "seconds" /\ qpc' = "idle") => <<q_item, info_pos>> \in q_seen
        /\ (pqpc = "seconds" /\ pqpc' = "idle") => pq_item = play_head
      ]_vars

\* C11: byte conservation in the player.  In a run without purge, flush or
\* detach the bytes copied to the device are the fetched bytes in order,
\* each once; audio_buf_index never passes audio_buf_size (no copy takes
\* more than the held buffer has left); and when a callback has returned
\* the bytes copied are min(bytes requested, bytes produced).
Min(a, b) == IF a < b THEN a ELSE b

InOrder(out) == \A i \in 1 .. Len(out) : out[i] = i

C11_Conservation ==
    /\ audio_buf_index <= audio_buf_size
    /\ p_clean =>
         /\ InOrder(p_out)
         /\ ppc = "idle" => Len(p_out) = Min(p_requested, p_produced)

\* C11 as the code has it: the bytes copied are the fetched bytes in order,
\* all of them but the rest of the held buffer; a playing callback that has
\* returned wrote each requested byte as a copy or as a zero; and the bytes
\* copied are min(requested, produced) as long as no zero was written while
\* fetched bytes were still to come.
C11_ConservationAmended ==
    /\ audio_buf_index <= audio_buf_size
    /\ p_clean =>
         /\ InOrder(p_out)
         /\ Len(p_out) = p_produced - (audio_buf_size - audio_buf_index)
         /\ ppc = "idle" =>
              /\ Len(p_out) + p_silence = p_requested
              /\ (p_silence = 0 \/ audio_buf_index = audio_buf_size) =>
                    Len(p_out) = Min(p_requested, p_produced)

\* Two buffers were fetched and copied across callbacks, after an underrun.
C11_Witness ==
    /\ p_clean /\ ppc = "idle" /\ p_nfetch >= 2 /\ p_silence > 0
    /\ Len(p_out) >= 3 /\ audio_buf_index < audio_buf_size

\* C12: the player's flush.  When the player's sink_flush returns the event
\* queue is empty, the position is (NULL, -1.0), no buffer is held and
\* audio_buf_index = audio_buf_size = 0.
C12_PlayerFlushResets ==
    [][ player_sink_flush =>
           /\ eventq' = <<>>
           /\ play_head' = NULL
           /\ play_pos' = NoPos
           /\ audio_buf' = NoBuffer
           /\ audio_buf_index' = 0
           /\ audio_buf_size' = 0
      ]_vars

\* C12 as the code has it: sink_flush releases the held buffer and resets
\* audio_buf_index and audio_buf_size; the event queue and the position
\* stay as they were.
C12_PlayerFlushAmended ==
    [][ player_sink_flush =>
           /\ audio_buf' = NoBuffer
           /\ audio_buf_index' = 0
           /\ audio_buf_size' = 0
           /\ eventq' = eventq
           /\ play_head' = play_head
           /\ play_pos' = play_pos
      ]_vars

\* A flush during playback: an event is queued and the position is that
\* of the flushed buffer's item.
C12_Witness ==
    /\ p_ctl = "flush" /\ audio_buf = NoBuffer /\ audio_buf_size = 0
    /\ play_head # NULL /\ play_pos > 0 /\ eventq # <<>>

\* C13: the callback never blocks.  While a callback runs its next loop
\* turn can always be taken (the fetch is non-blocking, nothing waits on
\* the source or the event queue); each turn writes at least one byte of
\* the region, every byte it accounts for is a copied byte or a zero, and
\* the callback returns exactly when the whole region is written.
C13_CallbackNeverBlocks ==
    [][ /\ ppc = "loop" => ENABLED callback_loop
        /\ callback_loop =>
             /\ len' < len
             /\ ppc' = "idle" <=> len' = 0
             /\ ~paused => len - len' = (Len(p_out') - Len(p_out))
                                        + (p_silence' - p_silence)
             /\ paused => len' = 0 /\ p_out' = p_out
      ]_vars

\* A callback has copied the held buffer to its end, the region is not
\* full yet and the next turn has to fetch.
C13_Witness ==
    /\ ppc = "loop" /\ len > 0 /\ p_out # <<>>
    /\ audio_buf_index = audio_buf_size /\ audio_buf # NoBuffer

\* C14: single-track mode.  With disable_album set, when the worker unlocks
\* after a step that emitted a track's record the accumulator of that track
\* is destroyed: after a track boundary the current slot holds only what
\* the new track's first buffer made of it, and after an end-of-stream (no
\* allocation having failed, so that the record of the live accumulator was
\* put) no accumulator is live.
C14_DestroyedAfterEmit ==
    [][ /\ (disable_album /\ wpc = "got" /\ wpc' = "loop" /\ emits' = emits + 1) =>
              \A i \in Slots :
                  all_track_states'[i].live =>
                      all_track_states'[i].first = result.id
        /\ (disable_album /\ wpc = "end_album" /\ wpc' = "loop"
               /\ all_track_states[cur_track_index].live /\ alloc_fails' = 0) =>
              \A i \in Slots : ~all_track_states'[i].live
      ]_vars

\* C15: album aggregate.  In album mode, when the worker puts the album
\* record at end-of-stream (no NULL accumulator having been dereferenced),
\* the record is computed over the accumulators of slots 0..cur_track_index
\* before they are destroyed, and the live slots are exactly these, one per
\* run of buffers observed since the last end-of-stream, flush or attach,
\* each holding the buffers of one item, in the order of the runs.
LiveSlots(states) == {i \in Slots : states[i].live}

OnePerRun(states, last, n) ==
    /\ LiveSlots(states) = IF n = 0 THEN {} ELSE 0 .. last
    /\ Cardinality(LiveSlots(states)) = n
    /\ \A i \in LiveSlots(states) : Cardinality(states[i].items) = 1
    /\ \A i, j \in LiveSlots(states) : i < j => states[i].first < states[j].first

C15_AlbumAggregate ==
    [][ (~disable_album /\ wpc = "end_album" /\ wpc' = "loop" /\ ~ub) =>
           /\ OnePerRun(all_track_states, cur_track_index, runs)
           /\ queue' # queue =>
                queue'[Len(queue')].over =
                    {all_track_states[i] : i \in LiveSlots(all_track_states)}
           /\ LiveSlots(all_track_states') = {} /\ cur_track_index' = 0
      ]_vars

C17_ControllerNotBlocked ==
    [][ /\ wpc' \in {"fetch", "waiting", "got"} => mutex' # "worker"
        /\ (mutex = "worker" /\ ~crashed) =>
              /\ wpc \in {"prewait", "end_album"}
              /\ wpc = "prewait" => ENABLED W_wait
              /\ wpc = "end_album" => ENABLED W_album
        /\ (mutex = "ctl" /\ ~crashed) =>
              ENABLED (sink_purge_return \/ sink_flush_return)
        /\ (mutex = "query" /\ ~crashed) => ENABLED position_read_seconds
        /\ (groove_loudness_detector_info_get \/ detach_queue_flush) =>
              mutex' = mutex
      ]_vars

\* The queue is full, the worker waits on drain_cond, and a purge or flush
\* holds the mutex.
C17_Witness ==
    /\ wpc = "waiting" /\ mutex = "ctl"
    /\ info_queue_count >= info_queue_size

\* C18: end-of-stream.  On GROOVE_BUFFER_END the worker puts the record of
\* the last track, then an album record in album mode and none with
\* disable_album (allocation failures aside), destroys the accumulators and
\* resets the position to (NULL, -1.0).
C18_EndOfStream ==
    [][ /\ (wpc = "got" /\ result.kind = "END" /\ wpc' = "end_album"
               /\ all_track_states[cur_track_index].live
               /\ alloc_fails' = alloc_fails) =>
              queue' = Append(queue, track_info)
        /\ (wpc = "end_album" /\ wpc' = "loop" /\ ~ub) =>
              /\ alloc_fails' = alloc_fails =>
                    queue' = IF disable_album THEN queue
                             ELSE Append(queue, album_info)
              /\ LiveSlots(all_track_states') = {}
              /\ info_head' = NULL /\ info_pos' = NoPos
      ]_vars

\* C19: an allocation failure skips the track.  Interpreting a buffer never
\* dereferences a NULL accumulator (a slot whose ebur128_init failed gets no
\* frames and the process does not die), and no track record of an item is
\* made from an empty slot.
C19_AllocFailureSkipsTrack ==
    [][ /\ (wpc = "got" /\ result.kind = "YES" /\ ~crashed /\ ~ub) =>
              (~crashed' /\ ~ub')
        /\ \A i \in 1 .. Len(queue') :
              (queue'[i].kind = "track" /\ queue'[i].item # NULL) =>
                  queue'[i].acc.live
      ]_vars

\* C20: growth of the slot array.  The storage allocated for
\* all_track_states holds state_history_count pointers, every slot of the
\* array holds what was stored in it or NULL, and cur_track_index is below
\* state_history_count: every slot access is in bounds.
C20_SlotsInBounds ==
    /\ hist_index < hist_count
    /\ hist_count * PointerSize <= hist_bytes
    /\ hist_valid = hist_count
    /\ ~hist_dead

\* C21: purge leaves nothing of the item.  An item whose purge has returned,
\* and of which no fetch started since has returned a buffer, is not
\* info_head and is the item of no record in info_queue (the purge removed
\* the records that were there, so any such record was put after it).
C21_PurgeLeavesNothing ==
    \A item \in purged :
        /\ info_head # item
        /\ \A i \in 1 .. Len(queue) : queue[i].item # item

\* What one turn of the callback's loop fetched, read off the step: a
\* fetch is made when need_fetch holds; it delivered a buffer (the buffer
\* now held), the end of the stream (counted, no buffer) or nothing.
fetch_made == need_fetch(paused, audio_buf_index, audio_buf_size)
fetched_yes == fetch_made /\ audio_buf' # NoBuffer
fetched_end == fetch_made /\ audio_buf' = NoBuffer /\ p_nfetch' = p_nfetch + 1
fetched_no == fetch_made /\ audio_buf' = NoBuffer /\ p_nfetch' = p_nfetch

\* The parts of C22 that do not count events: the end of the stream
\* clears the position; a failed fetch zero-fills the rest of the region
\* and ends the loop; a buffer becomes the position (play_pos then advanced
\* by the bytes copied from it in the same turn); a paused call fetches
\* nothing, puts no event and leaves buffer, indices and position alone.
fetch_effects ==
    /\ fetched_end => play_head' = NULL /\ play_pos' = NoPos
    /\ fetched_no => /\ len' = 0 /\ ppc' = "idle"
                     /\ p_silence' = p_silence + len
                     /\ UNCHANGED <<play_head, play_pos, p_out>>
    /\ fetched_yes => /\ play_head' = audio_buf'.item
                      /\ play_pos' = audio_buf'.pos + audio_buf_index'
    /\ paused => /\ UNCHANGED <<audio_buf, audio_buf_index, audio_buf_size,
                                play_head, play_pos, eventq, p_nfetch>>
                 /\ len' = 0 /\ ppc' = "idle"

\* C22: events per fetch.  Each fetch of the fill callback puts exactly one
\* NOWPLAYING event at the end of the stream, exactly one BUFFERUNDERRUN
\* event when it fails, and on success a NOWPLAYING event if and only if the
\* buffer's item differs from play_head; with the effects on position,
\* region and loop stated by fetch_effects.
C22_EventPerFetch ==
    [][callback_loop =>
        /\ fetch_effects
        /\ fetched_end => eventq' = Append(eventq, "NOWPLAYING")
        /\ fetched_no => eventq' = Append(eventq, "BUFFERUNDERRUN")
        /\ fetched_yes =>
              eventq' = IF play_head # audio_buf'.item
                        THEN Append(eventq, "NOWPLAYING") ELSE eventq
        /\ ~fetch_made => eventq' = eventq]_vars

\* The event a fetch calls for is put unless its allocation fails, in
\* which case the fetch puts none; everything else as in C22.
C22_EventUnlessAllocFails ==
    [][callback_loop =>
        LET put(type) == IF p_alloc_failed' THEN eventq ELSE Append(eventq, type)
        IN
        /\ fetch_effects
        /\ fetched_end => eventq' = put("NOWPLAYING")
        /\ fetched_no => eventq' = put("BUFFERUNDERRUN")
        /\ fetched_yes =>
              eventq' = IF play_head # audio_buf'.item
                        THEN put("NOWPLAYING") ELSE eventq
        /\ ~fetch_made => eventq' = eventq
        /\ (p_alloc_failed' => fetch_made)]_vars

\* Callbacks alone (no purge, flush or detach) have fetched a first buffer,
\* put NOWPLAYING for it, and then met an underrun and put BUFFERUNDERRUN.
C22_Witness ==
    /\ p_ctl = "none" /\ ~p_alloc_failed
    /\ eventq = <<"NOWPLAYING", "BUFFERUNDERRUN">>
    /\ play_head # NULL /\ audio_buf = NoBuffer

\* C23: the player refetches when it holds no buffer.  Whenever audio_buf is
\* NULL, audio_buf_index = audio_buf_size = 0, so that a fill call made
\* while playing meets need_fetch and fetches.
C23_RefetchWithoutBuffer ==
    audio_buf = NoBuffer =>
        /\ audio_buf_index = 0 /\ audio_buf_size = 0
        /\ need_fetch(FALSE, audio_buf_index, audio_buf_size)

\* C24: bounded occupancy.  info_queue_count is never negative and never
\* above info_queue_size + 1: one capacity check admits at most a per-track
\* record and an album record.
C24_BoundedOccupancy ==
    /\ info_queue_count >= 0
    /\ info_queue_count <= info_queue_size + 1

\* An end of stream has put the last track's record and the album record
\* on a queue one short of the threshold: the occupancy is at its bound.
C24_Witness ==
    /\ info_queue_count = info_queue_size + 1
    /\ Len(queue) = info_queue_count
    /\ queue[Len(queue)].kind = "album"
    /\ queue[Len(queue) - 1].kind = "track"

=============================================================================
